---- MODULE Spec2Model ----
(***************************************************************************)
(* The profiling notebook 01-introduction.ipynb as a state machine: an     *)
(* IPython kernel (user namespace, loaded extensions, execute queue) that  *)
(* runs the notebook's code cells one source line at a time.               *)
(*                                                                         *)
(* Arrays are scaled down: the literal 100 of the 100 by 100 matrices is   *)
(* Dim, np.random.rand draws each entry from the two ends of its range     *)
(* [0, 1), and np.sqrt is the square root in units of 1/SqrtScale, rounded *)
(* down.                                                                   *)
(* Source lines are the line numbers of the .ipynb file.                   *)
(***************************************************************************)
EXTENDS Integers, Sequences, FiniteSets, TLC

VARIABLES user_ns, exts, queue, cell, frame, rep, hits, outcome, twin

vars == <<user_ns, exts, queue, cell, frame, rep, hits, outcome, twin>>

\* ------------------------------------------------------------------ bounds
Dim == 2
TimeitRuns == 2
SqrtScale == 10

\* --------------------------------------------------------------- notebook
\* A slip: the profiling cell placed before the cells it needs.
CodeCells_LprunEarly == <<3, 6, 13, 8, 10, 16>>

\* The code cells, by their index in the notebook's list of cells.
CodeCells == <<3, 6, 8, 10, 13, 16>>

\* The source line on which each code cell starts.
FirstLine(c) ==
  CASE c = 3 -> 74
    [] c = 6 -> 106
    [] c = 8 -> 147
    [] c = 10 -> 164
    [] c = 13 -> 203
    [] c = 16 -> 239

\* The sizes of the dot-product loop: [10e3, 10e4, 10e5] passed through int().
Shapes == <<10000, 100000, 1000000>>

\* The statements whose executions are counted.
CodeLines == {74, 76, 77, 78} \cup (107..118 \ {109}) \cup {147, 164}
             \cup (165..176 \ {167}) \cup {203}

\* ------------------------------------------------------- Python semantics
EmptyNs == [n \in {} |-> 0]

\* name = value
Bind(ns, n, v) == [m \in (DOMAIN ns) \cup {n} |-> IF m = n THEN v ELSE ns[m]]

\* A frame of running code: the line about to execute (0: returned), the
\* local variables, the stack of live range iterators (next index of each),
\* and the exception that ended it.
NewFrame(l) == [line |-> l, locals |-> EmptyNs, iters |-> <<>>, exc |-> "none"]

NoFrame == NewFrame(0)

Raise(f, e) == [line |-> 0, locals |-> EmptyNs, iters |-> <<>>, exc |-> e]

Goto(f, l) == [f EXCEPT !.line = l]

Assign(f, n, v, l) == [f EXCEPT !.locals = Bind(f.locals, n, v), !.line = l]

\* `for v in range(n):` at nesting depth lvl. Arriving from above creates the
\* iterator; each execution of the line asks it for the next index.
ForRange(f, lvl, v, n, body, exit) ==
  LET it == IF Len(f.iters) < lvl THEN Append(f.iters, 0) ELSE f.iters
  IN IF it[lvl] < n
       THEN [f EXCEPT !.locals = Bind(f.locals, v, it[lvl]),
                      !.iters = [it EXCEPT ![lvl] = @ + 1],
                      !.line = body]
       ELSE [f EXCEPT !.iters = SubSeq(it, 1, lvl - 1), !.line = exit]

\* ------------------------------------------------------------------ numpy
\* The values of one draw of np.random.rand: the ends of [0, 1).
RandValues == {0, 1}

\* The matrices np.random.rand(100, 100) can return.
RandMatrices == [0..Dim-1 -> [0..Dim-1 -> RandValues]]

\* An entry of an np.empty array that nothing has assigned yet.
Uninit == -1

\* np.empty((100, 100))
Empty == [r \in 0..Dim-1 |-> [c \in 0..Dim-1 |-> Uninit]]

\* X.shape[0], X.shape[1]
Shape0(A) == Cardinality(DOMAIN A)

Shape1(A) == Cardinality(DOMAIN A[0])

InBounds(A, r, c) == r \in DOMAIN A /\ c \in DOMAIN A[r]

\* np.sqrt, in units of 1/SqrtScale
Sqrt(d) ==
  CHOOSE r \in 0..(SqrtScale * d) :
    r * r <= SqrtScale * SqrtScale * d /\ (r + 1) * (r + 1) > SqrtScale * SqrtScale * d

\* np.random.rand(int(shape)): a vector, of which only the length is kept
\* (np.dot's result is discarded by %timeit).
RandVector(n) == [shape |-> n]

\* --------------------------------------------- cell 6, the %%timeit body
TimeitLines(f, ns, x) ==
  LET v == f.locals IN
  CASE f.line = 107 -> IF "np" \in DOMAIN ns THEN Assign(f, "X", x, 108)
                       ELSE Raise(f, "NameError")
    [] f.line = 108 -> IF "np" \in DOMAIN ns THEN Assign(f, "D", Empty, 110)
                       ELSE Raise(f, "NameError")
    [] f.line = 110 -> Assign(f, "M", Shape0(v["X"]), 111)
    [] f.line = 111 -> Assign(f, "N", Shape1(v["X"]), 112)
    [] f.line = 112 -> ForRange(f, 1, "i", v["M"], 113, 119)
    [] f.line = 113 -> ForRange(f, 2, "j", v["M"], 114, 112)
    [] f.line = 114 -> Assign(f, "d", 0, 115)
    [] f.line = 115 -> ForRange(f, 3, "k", v["N"], 116, 118)
    [] f.line = 116 -> IF InBounds(v["X"], v["i"], v["k"]) /\ InBounds(v["X"], v["j"], v["k"])
                       THEN Assign(f, "tmp", v["X"][v["i"]][v["k"]] - v["X"][v["j"]][v["k"]], 117)
                       ELSE Raise(f, "IndexError")
    [] f.line = 117 -> Assign(f, "d", v["d"] + v["tmp"] * v["tmp"], 115)
    [] f.line = 118 -> IF ~ InBounds(v["D"], v["i"], v["j"]) THEN Raise(f, "IndexError")
                       ELSE IF "np" \notin DOMAIN ns THEN Raise(f, "NameError")
                       ELSE Assign(f, "D", [v["D"] EXCEPT ![v["i"]][v["j"]] = Sqrt(v["d"])], 113)
    [] f.line = 119 -> NoFrame

\* A slip in line 116: the coordinates are added, not subtracted.
TimeitBody_Plus(f, ns, x) ==
  LET v == f.locals IN
  IF f.line = 116
    THEN Assign(f, "tmp", v["X"][v["i"]][v["k"]] + v["X"][v["j"]][v["k"]], 117)
    ELSE TimeitLines(f, ns, x)

\* A slip in line 118: the entry is stored transposed.
TimeitBody_Transposed(f, ns, x) ==
  LET v == f.locals IN
  IF f.line = 118
    THEN Assign(f, "D", [v["D"] EXCEPT ![v["j"]][v["i"]] = Sqrt(v["d"])], 113)
    ELSE TimeitLines(f, ns, x)

\* One step of the function %%timeit makes from the cell body.
TimeitBody(f, ns, x) == TimeitLines(f, ns, x)

\* -------------------------------------------- cell 10, the body of distance
DistanceLines(f, ns, x) ==
  LET v == f.locals IN
  CASE f.line = 165 -> IF "np" \in DOMAIN ns THEN Assign(f, "X", x, 166)
                       ELSE Raise(f, "NameError")
    [] f.line = 166 -> IF "np" \in DOMAIN ns THEN Assign(f, "D", Empty, 168)
                       ELSE Raise(f, "NameError")
    [] f.line = 168 -> Assign(f, "M", Shape0(v["X"]), 169)
    [] f.line = 169 -> Assign(f, "N", Shape1(v["X"]), 170)
    [] f.line = 170 -> ForRange(f, 1, "i", v["M"], 171, 177)
    [] f.line = 171 -> ForRange(f, 2, "j", v["M"], 172, 170)
    [] f.line = 172 -> Assign(f, "d", 0, 173)
    [] f.line = 173 -> ForRange(f, 3, "k", v["N"], 174, 176)
    [] f.line = 174 -> IF InBounds(v["X"], v["i"], v["k"]) /\ InBounds(v["X"], v["j"], v["k"])
                       THEN Assign(f, "tmp", v["X"][v["i"]][v["k"]] - v["X"][v["j"]][v["k"]], 175)
                       ELSE Raise(f, "IndexError")
    [] f.line = 175 -> Assign(f, "d", v["d"] + v["tmp"] * v["tmp"], 173)
    [] f.line = 176 -> IF ~ InBounds(v["D"], v["i"], v["j"]) THEN Raise(f, "IndexError")
                       ELSE IF "np" \notin DOMAIN ns THEN Raise(f, "NameError")
                       ELSE Assign(f, "D", [v["D"] EXCEPT ![v["i"]][v["j"]] = Sqrt(v["d"])], 171)
    [] f.line = 177 -> NoFrame

\* A slip in line 172: d = 0.0 is hoisted out of the j loop.
Distance_Hoist(f, ns, x) ==
  LET v == f.locals IN
  IF f.line = 172
    THEN Assign(f, "d", IF v["j"] = 0 THEN 0 ELSE v["d"], 173)
    ELSE DistanceLines(f, ns, x)

\* A slip in line 173: the k loop runs one index too far.
Distance_KRange(f, ns, x) ==
  LET v == f.locals IN
  IF f.line = 173
    THEN ForRange(f, 3, "k", v["N"] + 1, 174, 176)
    ELSE DistanceLines(f, ns, x)

\* A slip in line 171: only the lower triangle is visited.
Distance_Tri(f, ns, x) ==
  LET v == f.locals IN
  IF f.line = 171
    THEN ForRange(f, 2, "j", v["i"] + 1, 172, 170)
    ELSE DistanceLines(f, ns, x)

\* A slip in line 174: the coordinates are added, not subtracted.
Distance_Plus(f, ns, x) ==
  LET v == f.locals IN
  IF f.line = 174
    THEN Assign(f, "tmp", v["X"][v["i"]][v["k"]] + v["X"][v["j"]][v["k"]], 175)
    ELSE DistanceLines(f, ns, x)

\* One step of a call of distance().
Distance(f, ns, x) == DistanceLines(f, ns, x)

\* ----------------------------------------------------------------- kernel
NoHits == [l \in CodeLines |-> 0]

Hit(h, l) == IF l \in DOMAIN h THEN [h EXCEPT ![l] = @ + 1] ELSE h

\* What the kernel reports for a frame that has ended.
Outcome(f) == IF f.exc = "none" THEN "ok" ELSE f.exc

Init ==
  /\ user_ns = EmptyNs
  /\ exts = {}
  /\ queue = <<>>
  /\ cell = 0
  /\ frame = NoFrame
  /\ rep = 0
  /\ hits = NoHits
  /\ outcome = "none"
  /\ twin = NoFrame

\* The user runs one cell.
Submit ==
  /\ cell = 0
  /\ queue = <<>>
  /\ \E i \in 1..Len(CodeCells) : queue' = <<CodeCells[i]>>
  /\ UNCHANGED <<user_ns, exts, cell, frame, rep, hits, outcome, twin>>

\* The user runs all cells of the notebook in a fresh kernel.
RunAll ==
  /\ cell = 0
  /\ queue = <<>>
  /\ outcome = "none"
  /\ queue' = CodeCells
  /\ UNCHANGED <<user_ns, exts, cell, frame, rep, hits, outcome, twin>>

\* The kernel takes the next execute request.
Execute ==
  /\ cell = 0
  /\ queue # <<>>
  /\ cell' = Head(queue)
  /\ queue' = Tail(queue)
  /\ frame' = NewFrame(FirstLine(Head(queue)))
  /\ rep' = 0
  /\ hits' = NoHits
  /\ outcome' = "running"
  /\ UNCHANGED <<user_ns, exts, twin>>

\* A slip: the line magic repeats the whole loop body.
LineMagicNext_Body(r) == IF r + 1 < TimeitRuns THEN 77 ELSE 76

\* %timeit on line 78: the line to run after one execution of the timed
\* statement, the r-th of this timing being done.
LineMagicNext(r) == IF r + 1 < TimeitRuns THEN 78 ELSE 76

\* Cell 3: the dot product timed at three sizes.
Cell3 ==
  /\ cell = 3
  /\ frame.line # 0
  /\ hits' = Hit(hits, frame.line)
  /\ CASE frame.line = 74 ->
            /\ user_ns' = Bind(user_ns, "np", "numpy")
            /\ frame' = Goto(frame, 76)
            /\ rep' = rep
       [] frame.line = 76 ->
            LET it == IF Len(frame.iters) < 1 THEN <<1>> ELSE frame.iters
            IN IF it[1] <= Len(Shapes)
                 THEN /\ user_ns' = Bind(user_ns, "shape", Shapes[it[1]])
                      /\ frame' = [frame EXCEPT !.iters = <<it[1] + 1>>, !.line = 77]
                      /\ rep' = rep
                 ELSE /\ frame' = [frame EXCEPT !.iters = <<>>, !.line = 0]
                      /\ UNCHANGED <<user_ns, rep>>
       [] frame.line = 77 ->
            /\ user_ns' = Bind(user_ns, "X", RandVector(user_ns["shape"]))
            /\ frame' = Goto(frame, 78)
            /\ rep' = rep
       [] frame.line = 78 ->
            /\ frame' = Goto(frame, LineMagicNext(rep))
            /\ rep' = IF rep + 1 < TimeitRuns THEN rep + 1 ELSE 0
            /\ UNCHANGED user_ns
  /\ outcome' = IF frame'.line = 0 THEN Outcome(frame') ELSE outcome
  /\ UNCHANGED <<exts, queue, cell, twin>>

\* A slip: the cell body runs in the user namespace, as an untimed cell would.
TimeitScope_Global(ns, f) ==
  IF f.line = 119 THEN Bind(Bind(ns, "X", f.locals["X"]), "D", f.locals["D"]) ELSE ns

\* The user namespace after the step of the timed body that leaves frame f:
\* the names the body assigns are locals of the timed function.
TimeitScope(ns, f) == ns

\* Cell 6: %%timeit runs the cell body TimeitRuns times, each time as one
\* call of a function made from the body.
Cell6 ==
  /\ cell = 6
  /\ frame.line # 0
  /\ hits' = Hit(hits, frame.line)
  /\ IF frame.line = 106
       THEN frame' = NewFrame(107) /\ rep' = rep
       ELSE \E x \in (IF frame.line = 107 THEN RandMatrices ELSE {EmptyNs}) :
              LET g == TimeitBody(frame, user_ns, x)
              IN IF g.line = 0 /\ g.exc = "none" /\ rep + 1 < TimeitRuns
                   THEN frame' = NewFrame(107) /\ rep' = rep + 1
                   ELSE frame' = g /\ rep' = IF g.line = 0 /\ g.exc = "none" THEN rep + 1 ELSE rep
  /\ user_ns' = TimeitScope(user_ns, frame)
  /\ outcome' = IF frame'.line = 0 THEN Outcome(frame') ELSE outcome
  /\ UNCHANGED <<exts, queue, cell, twin>>

\* A slip: the memory profiler is loaded instead.
LoadExt_Memory(e) == e \cup {"memory_profiler"}

\* %load_ext line_profiler
LoadExt(e) == e \cup {"line_profiler"}

\* Cell 8: %load_ext line_profiler
Cell8 ==
  /\ cell = 8
  /\ frame.line = 147
  /\ hits' = Hit(hits, frame.line)
  /\ exts' = LoadExt(exts)
  /\ frame' = Goto(frame, 0)
  /\ outcome' = "ok"
  /\ UNCHANGED <<user_ns, queue, cell, rep, twin>>

\* Cell 10: def distance()
Cell10 ==
  /\ cell = 10
  /\ frame.line = 164
  /\ hits' = Hit(hits, frame.line)
  /\ user_ns' = Bind(user_ns, "distance", "function")
  /\ frame' = Goto(frame, 0)
  /\ outcome' = "ok"
  /\ UNCHANGED <<exts, queue, cell, rep, twin>>

\* %lprun -f function_to_be_profiled function_to_be_called()
LprunProfiled == "distance"

LprunCalled == "distance"

\* Cell 13: %lprun -f distance distance()
Cell13 ==
  /\ cell = 13
  /\ frame.line # 0
  /\ hits' = Hit(hits, frame.line)
  /\ IF frame.line = 203
       THEN frame' = IF "line_profiler" \notin exts THEN Raise(frame, "UsageError")
                     ELSE IF LprunProfiled \notin DOMAIN user_ns THEN Raise(frame, "UsageError")
                     ELSE IF LprunCalled \notin DOMAIN user_ns THEN Raise(frame, "NameError")
                     ELSE NewFrame(165)
       ELSE \E x \in (IF frame.line = 165 THEN RandMatrices ELSE {EmptyNs}) :
              frame' = Distance(frame, user_ns, x)
  /\ outcome' = IF frame'.line = 0 THEN Outcome(frame') ELSE outcome
  /\ UNCHANGED <<user_ns, exts, queue, cell, rep, twin>>

\* Cell 16: the empty cell at the end of the notebook.
Cell16 ==
  /\ cell = 16
  /\ frame.line = 239
  /\ frame' = Goto(frame, 0)
  /\ outcome' = "ok"
  /\ UNCHANGED <<user_ns, exts, queue, cell, rep, hits, twin>>

\* The kernel replies and goes idle; an error drops the queued requests.
Finish ==
  /\ cell # 0
  /\ frame.line = 0
  /\ cell' = 0
  /\ frame' = NoFrame
  /\ rep' = 0
  /\ hits' = NoHits
  /\ queue' = IF outcome = "ok" THEN queue ELSE <<>>
  /\ UNCHANGED <<user_ns, exts, outcome, twin>>

Step == Cell3 \/ Cell6 \/ Cell8 \/ Cell10 \/ Cell13 \/ Cell16

Next == Submit \/ Execute \/ Step \/ Finish

\* Cells run one at a time, in any order.
Spec == Init /\ [][Next]_vars

NextOrder == RunAll \/ Execute \/ Step \/ Finish

\* The cells run once each, in notebook order, in a fresh kernel.
SpecOrder == Init /\ [][NextOrder]_vars

\* Every step of a running cell is taken: the kernel runs a request to its end.
LiveOrder == SpecOrder /\ WF_vars(NextOrder)

\* ------------------------------------------- the two bodies side by side
\* The timed body in frame and the body of distance in twin, started
\* together and given the same matrix by np.random.rand.
InitPair ==
  /\ user_ns \in {EmptyNs, Bind(EmptyNs, "np", "numpy")}
  /\ exts = {}
  /\ queue = <<>>
  /\ cell = 0
  /\ frame = NewFrame(107)
  /\ rep = 0
  /\ hits = NoHits
  /\ outcome = "none"
  /\ twin = NewFrame(165)

PairStep ==
  /\ frame.line # 0
  /\ twin.line # 0
  /\ \E x \in (IF frame.line = 107 THEN RandMatrices ELSE {EmptyNs}) :
       /\ frame' = TimeitBody(frame, user_ns, x)
       /\ twin' = Distance(twin, user_ns, x)
  /\ UNCHANGED <<user_ns, exts, queue, cell, rep, hits, outcome>>

SpecPair == InitPair /\ [][PairStep]_vars

\* ------------------------------------------------------------ properties
\* The first line of the pairwise-distance code the kernel is running.
Base == IF cell = 6 THEN 107 ELSE 165

\* The running pairwise-distance code is about to execute its line Base + off.
At(off) == cell \in {6, 13} /\ frame.line = Base + off

V(n) == frame.locals[n]

Idx == 0..Dim-1

\* The sum over k < n of (X[i, k] - X[j, k])^2.
RECURSIVE SumSq(_, _, _, _)
SumSq(X, i, j, n) ==
  IF n = 0 THEN 0
  ELSE SumSq(X, i, j, n - 1) + (X[i][n-1] - X[j][n-1]) * (X[i][n-1] - X[j][n-1])

Assigned(D) == {p \in Idx \X Idx : D[p[1]][p[2]] # Uninit}

RowMajorBefore(i, j) == {p \in Idx \X Idx : p[1] < i \/ (p[1] = i /\ p[2] < j)}

Finished == cell # 0 /\ frame.line = 0

NoError == outcome \in {"none", "running", "ok"}

\* C1, as stated: every code cell executes successfully whichever cells were
\* executed before it.
C1_Independent == NoError

C1_Outcomes ==
  Finished =>
    /\ cell \in {3, 8, 10, 16} => outcome = "ok"
    /\ cell = 6 => outcome = IF "np" \in DOMAIN user_ns THEN "ok" ELSE "NameError"
    /\ cell = 13 => outcome = IF "line_profiler" \notin exts \/ "distance" \notin DOMAIN user_ns
                                THEN "UsageError"
                              ELSE IF "np" \notin DOMAIN user_ns THEN "NameError"
                              ELSE "ok"
    /\ cell = 3 => {"np", "shape", "X"} \subseteq DOMAIN user_ns
    /\ cell = 8 => "line_profiler" \in exts
    /\ cell = 10 => "distance" \in DOMAIN user_ns

\* C1, amended: a code cell executes successfully exactly when the cells that
\* provide what it uses ran before it (cell 6 needs np of cell 3; cell 13 needs
\* the line_profiler extension of cell 8, distance of cell 10 and np of cell 3;
\* cells 3, 8, 10 and 16 need nothing), and otherwise ends in a NameError or
\* UsageError; a successful cell 3 leaves np, shape and X bound, cell 8 the
\* extension loaded, cell 10 distance bound, and cells 6, 13 and 16 change
\* neither the namespace nor the extensions.
C1_Dependencies ==
  /\ []C1_Outcomes
  /\ [][(cell \in {6, 13, 16}) => (user_ns' = user_ns /\ exts' = exts)]_vars

C1_Witness == cell = 13 /\ Finished /\ outcome = "ok"

\* C2, as stated: after a code cell finishes, no array it created is still
\* bound in the kernel's namespace.
C2_NothingBound == cell = 0 => DOMAIN user_ns \cap {"X", "D"} = {}

C2_State ==
  /\ cell = 0 => frame = NoFrame
  /\ "D" \notin DOMAIN user_ns
  /\ At(0) => frame.locals = EmptyNs
  /\ cell = 3 /\ frame.line = 78 =>
       hits[77] >= 1 /\ user_ns["X"] = RandVector(user_ns["shape"])
  /\ cell = 3 /\ Finished => /\ "X" \in DOMAIN user_ns
                             /\ user_ns["X"] = RandVector(Shapes[Len(Shapes)])

\* C2, amended: the arrays X and D of the pairwise-distance snippets are
\* created in an empty local scope, are gone when the cell has finished and
\* never reach the kernel's namespace, and the X that line 78 reads was created
\* by line 77 in the same cell execution; but the vector X of the dot-product
\* loop stays bound in the kernel's namespace after cell 3 has finished.
C2_Lifecycle ==
  /\ []C2_State
  /\ [][(cell \in {6, 13}) => (user_ns' = user_ns)]_vars

C2_Witness == cell = 6 /\ Finished /\ outcome = "ok" /\ "X" \in DOMAIN user_ns

\* C3: when the loops finish, D[i, j] is the square root of the sum over k of
\* (X[i, k] - X[j, k])^2 for all i, j < M, and the d stored for an entry is
\* that sum.
C3_PairwiseDistance ==
  /\ At(11) => V("d") = SumSq(V("X"), V("i"), V("j"), V("N"))
  /\ At(12) => \A i, j \in 0..V("M")-1 :
                 V("D")[i][j] = Sqrt(SumSq(V("X"), i, j, V("N")))

C3_Witness == At(12) /\ \E i, j \in Idx : V("D")[i][j] > SqrtScale

Shift(f) == [f EXCEPT !.line = IF @ = 0 THEN 0 ELSE @ + (165 - 107)]

\* C4: side by side on the same matrix, the timed cell body and the body of
\* distance are at corresponding lines with the same iterators, the same
\* locals (i, j, k, d, tmp, X, D) and the same exception after every step.
C4_SameComputation == twin = Shift(frame)

C4_Witness ==
  /\ frame.line = 119
  /\ twin.line = 177
  /\ \E i, j \in Idx : twin.locals["D"][i][j] > SqrtScale

\* C5: run in notebook order in a fresh kernel, no cell fails, every name and
\* magic is available where it is used, %lprun profiles the function it
\* calls, and the whole notebook gets executed.
C5_Safe ==
  /\ NoError
  /\ cell = 6 /\ frame.line # 0 => "np" \in DOMAIN user_ns
  /\ cell = 3 /\ frame.line = 78 => {"np", "X"} \subseteq DOMAIN user_ns
  /\ cell = 13 /\ frame.line # 0 =>
       /\ "line_profiler" \in exts
       /\ {"np", LprunProfiled, LprunCalled} \subseteq DOMAIN user_ns
       /\ LprunProfiled = LprunCalled

C5_NotebookOrder ==
  /\ []C5_Safe
  /\ <>(cell = 0 /\ queue = <<>> /\ outcome = "ok")

C5_Witness == cell = 13 /\ frame.line = 177 /\ queue = <<16>>

C6_State ==
  /\ cell = 3 /\ frame.line = 78 =>
       /\ hits[77] = frame.iters[1] - 1
       /\ hits[78] = (frame.iters[1] - 2) * TimeitRuns + rep
  /\ cell = 3 /\ Finished =>
       hits[77] = Len(Shapes) /\ hits[78] = Len(Shapes) * TimeitRuns
  /\ cell = 6 /\ frame.line = 107 => frame.locals = EmptyNs /\ hits[107] = rep
  /\ cell = 6 /\ Finished /\ outcome = "ok" =>
       /\ rep = TimeitRuns
       /\ hits[107] = TimeitRuns /\ hits[108] = TimeitRuns
       /\ hits[117] = TimeitRuns * Dim * Dim * Dim
       /\ hits[118] = TimeitRuns * Dim * Dim

\* C6: in cell 3 only np.dot is repeated (TimeitRuns times per size) and X is
\* created once per size, outside the repetition; in cell 6 the creation of X
\* and D and all the loops are repeated, every repetition from an empty scope.
C6_TimedRegion ==
  /\ []C6_State
  /\ [][(cell = 3 /\ frame.line = 78) => (user_ns' = user_ns)]_vars

C6_Witness == cell = 6 /\ frame.line = 119 /\ rep = TimeitRuns - 1 /\ "X" \in DOMAIN user_ns

\* C7: every index the loops use is within the array it indexes, M and N are
\* the row and column counts of X, D has at least M rows and M columns, and no
\* access raises an IndexError.
C7_ShapeConformance ==
  /\ frame.exc # "IndexError" /\ outcome # "IndexError"
  /\ At(9) => /\ V("M") = Shape0(V("X")) /\ V("N") = Shape1(V("X"))
              /\ V("i") \in 0..V("M")-1 /\ V("j") \in 0..V("M")-1
              /\ V("k") \in 0..V("N")-1
              /\ InBounds(V("X"), V("i"), V("k")) /\ InBounds(V("X"), V("j"), V("k"))
  /\ At(11) => /\ V("i") \in 0..V("M")-1 /\ V("j") \in 0..V("M")-1
               /\ InBounds(V("D"), V("i"), V("j"))
               /\ Shape0(V("D")) >= V("M") /\ Shape1(V("D")) >= V("M")

C7_Witness == At(9) /\ V("i") = Dim - 1 /\ V("j") = Dim - 1 /\ V("k") = Dim - 1

PerPair(m) == m * m

PerCoordinate(m, n) == m * m * n

C8_HitCounts ==
  cell = 13 /\ frame.line = 177 =>
    /\ hits[170] = V("M") + 1
    /\ hits[171] = V("M") * (V("M") + 1)
    /\ hits[172] = PerPair(V("M")) /\ hits[176] = PerPair(V("M"))
    /\ hits[174] = PerCoordinate(V("M"), V("N"))
    /\ hits[175] = PerCoordinate(V("M"), V("N"))
    /\ \A l \in {172, 176} : hits[l] <= hits[174]
    /\ PerPair(100) = 10000 /\ PerCoordinate(100, 100) = 1000000

\* C8: a call of distance() reaches its end, and there line 170 has yielded M
\* times (M + 1 executions, the last one ending the loop), lines 172 and 176
\* have M*M hits and lines 174 and 175 have M*M*N hits.
C8_TerminatesWithHits ==
  /\ (cell = 13 /\ frame.line = 165) ~> (cell = 13 /\ frame.line = 177)
  /\ []C8_HitCounts

C8_Witness == cell = 13 /\ frame.line = 177 /\ hits[175] = Dim * Dim * Dim

C9_State ==
  /\ At(3) => Assigned(V("D")) = {}
  /\ At(8) /\ Len(frame.iters) < 3 => V("d") = 0
  /\ At(9) \/ At(10) => V("d") = SumSq(V("X"), V("i"), V("j"), V("k"))
  /\ At(11) => Assigned(V("D")) = RowMajorBefore(V("i"), V("j"))
  /\ At(12) => Assigned(V("D")) = Idx \X Idx

C9_Store ==
  (/\ cell \in {6, 13}
   /\ "D" \in DOMAIN frame.locals
   /\ "D" \in DOMAIN frame'.locals
   /\ frame'.locals["D"] # frame.locals["D"])
  => /\ At(11)
     /\ V("D")[V("i")][V("j")] = Uninit
     /\ frame'.locals["D"][V("i")][V("j")] # Uninit
     /\ frame'.locals["D"] =
          [V("D") EXCEPT ![V("i")][V("j")] = frame'.locals["D"][V("i")][V("j")]]

\* C9: np.empty leaves every entry of D unassigned; each store assigns the one
\* entry (i, j), which was unassigned, when exactly the entries before it in
\* row-major order are assigned; at the end every entry is assigned; and d is
\* 0 when the k loop starts and holds only the terms of the current (i, j).
C9_AssignedOnce ==
  /\ []C9_State
  /\ [][C9_Store]_vars

C9_Witness == At(11) /\ cell = 6 /\ rep = 1 /\ V("i") = Dim - 1 /\ V("j") = 0

\* C10: when the loops finish, D has a zero diagonal, is symmetric and has no
\* negative entry.
C10_DistanceMatrix ==
  At(12) => \A i, j \in 0..V("M")-1 :
              /\ V("D")[i][i] = 0
              /\ V("D")[i][j] = V("D")[j][i]
              /\ V("D")[i][j] >= 0

C10_Witness ==
  At(12) /\ cell = 13 /\ \E i, j \in Idx : i # j /\ V("D")[i][j] > 0
====
